---- MODULE Spec2Model ----
(***************************************************************************)
(* Model of DockerExecutor.execute_code (src/executor/app/                 *)
(* docker_executor.py): one request travelling through workspace           *)
(* materialisation, language resolution, and then either the single-run    *)
(* path or the batch test-suite path, with the Docker daemon and the       *)
(* filesystem as the environment.  Every call on the Docker client is a    *)
(* step of its own and may raise.                                          *)
(*                                                                         *)
(* Text is modelled as a sequence of tokens; " " and "\n" are the          *)
(* whitespace tokens, so that str.strip() is a real operation.             *)
(***************************************************************************)
EXTENDS Integers, Sequences, FiniteSets, TLC

\* ------------------------------------------------------------------ bounds
MaxTests == 2
MaxFiles == 2

\* ------------------------------------------------------------------ text
Whitespace == {" ", "\n"}

RECURSIVE LStrip(_)
LStrip(s) == IF s # <<>> /\ Head(s) \in Whitespace THEN LStrip(Tail(s)) ELSE s

RECURSIVE RStrip(_)
RStrip(s) ==
    IF s # <<>> /\ s[Len(s)] \in Whitespace THEN RStrip(SubSeq(s, 1, Len(s) - 1)) ELSE s

\* str.strip()
Strip(s) == RStrip(LStrip(s))

\* str(n)
IntStr(n) == ToString(n)

\* f'Execution timeout after {timeout} seconds'
TimeoutMessage(t) == <<"Execution timeout after", " ", IntStr(t), " ", "seconds">>

\* f'Unsupported language: {detected_language}'
UnsupportedMessage(lang) == <<"Unsupported language:", " ", lang>>

\* f'Docker error: {str(exc)}'
DockerErrorMessage(msg) == <<"Docker error:", " ">> \o msg

\* ------------------------------------------------------------------ registry
\* LANGUAGE_CONFIG: the registered languages and their images
LANGUAGE_CONFIG ==
    [python     |-> [image |-> "python:3.12-slim",    main_file |-> "main.py"],
     typescript |-> [image |-> "node:20-slim",        main_file |-> "main.ts"],
     go         |-> [image |-> "golang:1.23-alpine",  main_file |-> "main.go"],
     java       |-> [image |-> "openjdk:21-jdk-slim", main_file |-> "Main.java"]]

Registered == DOMAIN LANGUAGE_CONFIG

\* the value None of the code
NoLang == "None"

\* str.lower() on the extensions of the model
Lower(ext) == IF ext = ".Py" THEN ".py" ELSE IF ext = ".GO" THEN ".go" ELSE ext

\* ext_map of _detect_language_from_file, as ext_map.get(ext)
ExtMapGet(ext) ==
    CASE ext = ".py"   -> "python"
      [] ext = ".ts"   -> "typescript"
      [] ext = ".js"   -> "typescript"
      [] ext = ".go"   -> "go"
      [] ext = ".java" -> "java"
      [] OTHER         -> NoLang

\* a path is [stem, ext]: os.path.splitext(filepath) already applied
DetectLanguageFromFile(path) == ExtMapGet(Lower(path.ext))

\* lines 112-117: index of the first file whose language is detected, 0 if none
RECURSIVE FirstDetected(_, _)
FirstDetected(fs, i) ==
    IF i > Len(fs) THEN 0
    ELSE IF DetectLanguageFromFile(fs[i]) # NoLang THEN i
    ELSE FirstDetected(fs, i + 1)

\* lines 107-121
DetectedLanguage(fs, declared) ==
    LET i == FirstDetected(fs, 1)
    IN  IF i # 0 THEN DetectLanguageFromFile(fs[i]) ELSE declared

\* ext_map.get(detected_language, '.py') of lines 125-131
TargetExt(lang) ==
    CASE lang = "python"     -> ".py"
      [] lang = "typescript" -> ".ts"
      [] lang = "go"         -> ".go"
      [] lang = "java"       -> ".java"
      [] OTHER               -> ".py"

\* lines 132-135: first file whose name ends with the target extension, 0 if none
RECURSIVE FirstEndsWith(_, _, _)
FirstEndsWith(fs, ext, i) ==
    IF i > Len(fs) THEN 0
    ELSE IF fs[i].ext = ext THEN i
    ELSE FirstEndsWith(fs, ext, i + 1)

\* lines 108-139: index of the main file; 0 stands for the IndexError of
\* list(files.keys())[0] on an empty mapping
MainFileIndex(fs, declared) ==
    LET i == FirstDetected(fs, 1)
        j == FirstEndsWith(fs, TargetExt(DetectedLanguage(fs, declared)), 1)
    IN  IF i # 0 THEN i
        ELSE IF j # 0 THEN j
        ELSE IF Len(fs) > 0 THEN 1
        ELSE 0

\* ------------------------------------------------------------------ inputs
\* the language parameter of execute_code
DeclaredLanguages == {"python", "typescript", "go", "java", "ruby"}

\* the keys of files, each one path split by os.path.splitext, with the
\* directory part of its stem apart: "" for a bare file name, "sub" for a
\* relative directory, "/abs" for an absolute path, ".." for the parent
Exts == {".py", ".Py", ".ts", ".js", ".go", ".java", ".txt", ""}
Paths == [dir : {""}, stem : {"main"}, ext : Exts]
Dirs == {"", "sub", "/abs", ".."}
DirPaths == [dir : Dirs, stem : {"main"}, ext : {".py"}]

\* a dict keeps insertion order and has distinct keys
IsDict(fs) == \A i, j \in 1..Len(fs) : i # j => fs[i] # fs[j]
FileMaps(n) == {fs \in UNION {[1..k -> Paths] : k \in 0..n} : IsDict(fs)}
DirFileMaps(n) == {fs \in UNION {[1..k -> DirPaths] : k \in 1..n} : IsDict(fs)}

Path(ext) == [dir |-> "", stem |-> "main", ext |-> ext]
SmallFileMaps == {<<>>, <<Path(".py")>>, <<Path(".ts")>>, <<Path(".txt")>>}

\* timeout: int = 30
Timeouts == {1, 30}

\* test cases: input and (unstripped) expected output
Expecteds == {<<"a", " ">>, <<"b">>}
TestCases == [input : {<<"x">>}, output : Expecteds]
Suites(n) == UNION {[1..k -> TestCases] : k \in 0..n}

\* suites whose tests differ by their input
InputCases == [input : {<<"x">>, <<"y">>}, output : {<<"b">>}]
InputSuites(n) == UNION {[1..k -> InputCases] : k \in 1..n}

\* test_cases: list | None = None
NoTestCases == [present |-> FALSE, cases |-> <<>>]
TestCaseArgs(n) == {NoTestCases} \cup {[present |-> TRUE, cases |-> c] : c \in Suites(n)}

\* what the submitted program can write and how it can exit
ProgOuts == {<<>>, <<" ", "a">>}
ProgErrs == {<<>>, <<" ">>, <<" ", "w">>}
ExitCodes == {0, 1}

\* ------------------------------------------------------------------ exceptions
NoExc == [cls |-> "None", msg |-> <<>>]
Exc(cls, msg) == [cls |-> cls, msg |-> msg]
\* what a call on the Docker client raises when it fails
APIError == Exc("APIError", <<"api error">>)
\* isinstance(exc, TimeoutError)
IsTimeoutError(e) == e.cls = "TimeoutError"
\* isinstance(exc, docker.errors.ContainerError)
IsContainerError(e) == e.cls = "ContainerError"

\* ------------------------------------------------------------------ state
VARIABLES
    language,        \* parameter language, reassigned at line 149
    files,           \* parameter files: the keys in insertion order
    timeout,         \* parameter timeout
    test_cases,      \* parameter test_cases
    pc,              \* position in execute_code
    main_file_path,  \* index into files, 0 for None
    container,       \* local container: "None" or the handle
    stdout,
    stderr,
    exit_code,
    test_results,    \* the list built by the batch loop
    verdict,
    first_error_output,
    exc,             \* the exception propagating out of a try block, or NoExc
    outcome,         \* "running", "returned" or "raised"
    result,          \* the dict returned
    tmpdir,          \* filesystem: whether the workspace directory exists
    wsFiles,         \* filesystem: indexes of the files written that exist
    ctr,             \* daemon: the request's container
    calls,           \* how many times each Docker client call was made
    build,           \* how the build step ended
    runs,            \* how each test's exec ended, in order
    waited,          \* how container.wait ended in single-run mode
    faults,          \* the Docker client calls that raised
    peer,            \* event loop: a second request's coroutine
    world            \* what the requests share: /app/tmp, the daemon, the threads

vars == <<language, files, timeout, test_cases, pc, main_file_path, container,
          stdout, stderr, exit_code, test_results, verdict, first_error_output,
          exc, outcome, result, tmpdir, wsFiles, ctr, calls, build, runs, waited,
          faults, peer, world>>

request == <<files, timeout, test_cases>>
outputs == <<stdout, stderr, exit_code>>
batch == <<test_results, verdict, first_error_output>>
locals == <<outputs, batch>>
history == <<build, runs, waited, faults>>

NoContainer == "None"
Handle == "c1"
\* the container of the second request: create returns a new object per call
PeerHandle == "c2"
\* uuids: how many values uuid4 has returned; dirs: the workspace directories
\* under /app/tmp, by name; name, peer_name: the volume_name of each request,
\* 0 before it is drawn; ctrs: the containers the daemon holds; busy: the
\* workers of the loop's default executor held by other requests' execs
NoWorld == [uuids |-> 0, dirs |-> {}, name |-> 0, peer_name |-> 0, ctrs |-> {},
            busy |-> 0]
NoResult == [returned |-> FALSE]
NoCalls == [create |-> 0, put |-> 0, start |-> 0, wait |-> 0, stop |-> 0,
            logs |-> 0, exec |-> 0, remove |-> 0]
\* procs: the exec'd commands still running inside the container, 0 for the
\* build command and n for the runner of test n
Absent == [state |-> "absent", populated |-> FALSE, network |-> FALSE,
           exit |-> 0, out |-> <<>>, err |-> <<>>, procs |-> {},
           mem_limit |-> "", cpu_period |-> 0, cpu_quota |-> 0, files |-> {}]

\* lines 81-84 and the state before the call
InitWith(fileMaps, languages, timeouts, testCaseArgs) ==
    /\ language \in languages
    /\ files \in fileMaps
    /\ timeout \in timeouts
    /\ test_cases \in testCaseArgs
    /\ pc = "start"
    /\ main_file_path = 0
    /\ container = NoContainer
    /\ stdout = <<>>
    /\ stderr = <<>>
    /\ exit_code = 0
    /\ test_results = <<>>
    /\ verdict = "None"
    /\ first_error_output = <<>>
    /\ exc = NoExc
    /\ outcome = "running"
    /\ result = NoResult
    /\ tmpdir = FALSE
    /\ wsFiles = {}
    /\ ctr = Absent
    /\ calls = NoCalls
    /\ build = "none"
    /\ runs = <<>>
    /\ waited = "none"
    /\ faults = {}
    /\ world = NoWorld

\* one request on the event loop
Init ==
    /\ InitWith(SmallFileMaps, {"python", "go", "ruby"}, {30}, TestCaseArgs(MaxTests))
    /\ peer = "none"

\* the requests that exercise language resolution
InitLang ==
    /\ InitWith(FileMaps(MaxFiles), DeclaredLanguages, Timeouts,
                {NoTestCases} \cup {[present |-> TRUE, cases |-> c] : c \in Suites(0)}
                  \cup {[present |-> TRUE,
                         cases |-> <<[input |-> <<"x">>, output |-> <<"b">>]>>]})
    /\ peer = "none"

\* python requests whose tests are told apart by their input
InitSuite ==
    /\ InitWith({<<Path(".py")>>}, {"python", "go"}, {30},
                {NoTestCases} \cup {[present |-> TRUE, cases |-> c] : c \in InputSuites(MaxTests)})
    /\ peer = "none"

\* requests whose files lie in and out of the workspace's top level
InitDirs ==
    /\ InitWith(DirFileMaps(MaxFiles), {"python"}, {30},
                {NoTestCases,
                 [present |-> TRUE, cases |-> <<[input |-> <<"x">>, output |-> <<"b">>]>>]})
    /\ peer = "none"

\* the request and a second one submitted to the same executor, whose
\* coroutine shares the event loop
InitLoop ==
    /\ InitWith({<<Path(".py")>>, <<Path(".txt")>>}, {"go"}, {30},
                {NoTestCases} \cup
                {[present |-> TRUE, cases |-> c] :
                    c \in {d \in InputSuites(2) : \A i \in 1..Len(d) : d[i].input = <<"x">>}})
    /\ peer = "idle"

\* ------------------------------------------------------------------ workspace
\* an exception leaves the outer try block: lines 373-377 run next
Propagate(e) ==
    /\ exc' = e
    /\ pc' = "cleanup"

\* line 99: os.path.join(tmpdir, filepath) is filepath itself for an absolute
\* filepath, and names a file of the parent directory for '../name'
InWorkspace(path) == path.dir \in {"", "sub"}

\* lines 202-205: os.listdir(tmpdir) filtered by os.path.isfile
TopLevel(path) == path.dir = ""

\* lines 198-207 and 262-271: the tar that put_archive sends
Archive == {i \in wsFiles : TopLevel(files[i])}

\* uuid.uuid4(): a value that no earlier call returned
Uuid4 == world.uuids + 1

\* a workspace directory with one name for every request
MakeTmpdirFixedName ==
    /\ pc = "start"
    /\ tmpdir' = TRUE
    /\ world' = [world EXCEPT !.name = 1, !.dirs = @ \cup {1}]
    /\ pc' = "write"
    /\ UNCHANGED <<language, request, peer, main_file_path, container, locals, exc,
                   outcome, result, wsFiles, ctr, calls, history>>

\* lines 88-94: os.makedirs(tmpdir)
MakeTmpdir ==
    /\ pc = "start"
    /\ tmpdir' = TRUE
    /\ world' = [world EXCEPT !.uuids = @ + 1, !.name = Uuid4, !.dirs = @ \cup {Uuid4}]
    /\ pc' = "write"
    /\ UNCHANGED <<language, request, peer, main_file_path, container, locals, exc,
                   outcome, result, wsFiles, ctr, calls, history>>

\* lines 98-104: the files are written in order; a write may fail with OSError
WriteFiles ==
    /\ pc = "write"
    /\ \E k \in 0..Len(files) :
         /\ wsFiles' = 1..k
         /\ \/ /\ k = Len(files)
               /\ pc' = "resolve"
               /\ exc' = exc
            \/ /\ k < Len(files)
               /\ Propagate(Exc("OSError", <<"write failed">>))
    /\ UNCHANGED <<language, request, peer, world, main_file_path, container, locals,
                   outcome, result, tmpdir, ctr, calls, history>>

\* lines 107-149
ResolveLanguage ==
    /\ pc = "resolve"
    /\ LET detected_language == DetectedLanguage(files, language)
           main == MainFileIndex(files, language)
       IN  IF main = 0
           THEN /\ Propagate(Exc("IndexError", <<"list index out of range">>))
                /\ UNCHANGED <<language, main_file_path>>
           ELSE IF detected_language \notin Registered
           THEN /\ Propagate(Exc("ValueError", UnsupportedMessage(detected_language)))
                /\ main_file_path' = main
                /\ UNCHANGED language
           ELSE /\ language' = detected_language
                /\ main_file_path' = main
                /\ pc' = "mode"
                /\ exc' = exc
    /\ UNCHANGED <<request, peer, world, container, locals, outcome, result, tmpdir,
                   wsFiles, ctr, calls, history>>

\* if not test_cases: an absent and an empty list are both false
Truthy(tc) == tc.present /\ tc.cases # <<>>

\* a selection that takes any list, the empty one included, for a suite
SelectModeByPresence ==
    /\ pc = "mode"
    /\ pc' = IF ~test_cases.present THEN "s_create" ELSE "b_create"
    /\ UNCHANGED <<language, request, peer, world, main_file_path, container, locals, exc,
                   outcome, result, tmpdir, wsFiles, ctr, calls, history>>

\* lines 180 and 245
SelectMode ==
    /\ pc = "mode"
    /\ pc' = IF ~Truthy(test_cases) THEN "s_create" ELSE "b_create"
    /\ UNCHANGED <<language, request, peer, world, main_file_path, container, locals, exc,
                   outcome, result, tmpdir, wsFiles, ctr, calls, history>>

\* ------------------------------------------------------------------ daemon
Inc(call) == [calls EXCEPT ![call] = @ + 1]

\* a container that always gets a network
UseNetworkAlways(lang) == TRUE

\* network_disabled=not use_network, with use_network = language == 'typescript'
UseNetwork(lang) == lang = "typescript"

\* client.containers.create(...) returned: lines 186-195 and 250-259
Created(lang) ==
    [Absent EXCEPT !.state = "created", !.network = UseNetwork(lang),
                   !.mem_limit = "512m", !.cpu_period = 100000, !.cpu_quota = 50000]

\* a remove that is skipped for a container that never ran
RemoveIfStarted ==
    IF container # NoContainer /\ ctr.state # "created"
    THEN /\ calls' = Inc("remove")
         /\ ctr' = [ctr EXCEPT !.state = "removed", !.procs = {}]
         /\ faults' = faults
         /\ world' = [world EXCEPT !.ctrs = @ \ {container}]
    ELSE UNCHANGED <<calls, ctr, faults, world>>

\* container.remove(force=True), guarded by "if container"; what it raises is
\* swallowed, and the container is then gone or still there
RemoveIfCreated ==
    IF container # NoContainer
    THEN /\ calls' = Inc("remove")
         /\ \/ /\ ctr' = [ctr EXCEPT !.state = "removed", !.procs = {}]
               /\ faults' = faults
            \/ /\ ctr' \in {ctr, [ctr EXCEPT !.state = "removed", !.procs = {}]}
               /\ faults' = faults \cup {"remove"}
         /\ world' = [world EXCEPT
                         !.ctrs = IF ctr'.state = "removed" THEN @ \ {container} ELSE @]
    ELSE UNCHANGED <<calls, ctr, faults, world>>

\* ------------------------------------------------------------------ single run
\* the except clauses without the last one: only TimeoutError is handled
SingleHandleTimeoutOnly(e) ==
    /\ pc' = "s_finally"
    /\ IF IsTimeoutError(e)
       THEN /\ stdout' = <<>>
            /\ stderr' = e.msg
            /\ exit_code' = -1
            /\ exc' = exc
       ELSE /\ exc' = e
            /\ UNCHANGED outputs

\* lines 224-235: the except clauses of the single-run try block.  None of the
\* calls in the block raises docker.errors.ContainerError (containers.run does),
\* so that clause has no case here.
SingleHandle(e) ==
    /\ stdout' = <<>>
    /\ stderr' = IF IsTimeoutError(e) THEN e.msg ELSE DockerErrorMessage(e.msg)
    /\ exit_code' = -1
    /\ exc' = exc
    /\ pc' = "s_finally"

\* a single run that starts the container it created without populating it
SCreateThenStart ==
    /\ pc = "s_create"
    /\ calls' = Inc("create")
    /\ \/ /\ container' = Handle
          /\ world' = [world EXCEPT !.ctrs = @ \cup {Handle}]
          /\ ctr' = Created(language)
          /\ pc' = "s_start"
          /\ UNCHANGED <<outputs, exc, faults>>
       \/ /\ SingleHandle(APIError)
          /\ faults' = faults \cup {"create"}
          /\ UNCHANGED <<container, ctr, world>>
    /\ UNCHANGED <<language, request, peer, main_file_path, batch, outcome, result,
                   tmpdir, wsFiles, build, runs, waited>>

\* lines 186-195
SCreate ==
    /\ pc = "s_create"
    /\ calls' = Inc("create")
    /\ \/ /\ container' = Handle
          /\ world' = [world EXCEPT !.ctrs = @ \cup {Handle}]
          /\ ctr' = Created(language)
          /\ pc' = "s_put"
          /\ UNCHANGED <<outputs, exc, faults>>
       \/ /\ SingleHandle(APIError)
          /\ faults' = faults \cup {"create"}
          /\ UNCHANGED <<container, ctr, world>>
    /\ UNCHANGED <<language, request, peer, main_file_path, batch, outcome, result,
                   tmpdir, wsFiles, build, runs, waited>>

\* lines 198-207
SPut ==
    /\ pc = "s_put"
    /\ calls' = Inc("put")
    /\ \/ /\ ctr' = [ctr EXCEPT !.populated = TRUE, !.files = Archive]
          /\ pc' = "s_start"
          /\ UNCHANGED <<outputs, exc, faults>>
       \/ /\ SingleHandle(APIError)
          /\ faults' = faults \cup {"put"}
          /\ UNCHANGED ctr
    /\ UNCHANGED <<language, request, peer, world, main_file_path, container, batch, outcome,
                   result, tmpdir, wsFiles, build, runs, waited>>

\* line 210
SStart ==
    /\ pc = "s_start"
    /\ calls' = Inc("start")
    /\ \/ /\ ctr' = [ctr EXCEPT !.state = "running"]
          /\ pc' = "s_wait"
          /\ UNCHANGED <<outputs, exc, faults>>
       \/ /\ SingleHandle(APIError)
          /\ faults' = faults \cup {"start"}
          /\ UNCHANGED ctr
    /\ UNCHANGED <<language, request, peer, world, main_file_path, container, batch, outcome,
                   result, tmpdir, wsFiles, build, runs, waited>>

\* lines 211-213: the program exits in time, or the deadline passes with the
\* program still running, or wait raises for another reason
SWait ==
    /\ pc = "s_wait"
    /\ calls' = Inc("wait")
    /\ \/ /\ \E e \in ExitCodes, o \in ProgOuts, r \in ProgErrs :
               ctr' = [ctr EXCEPT !.state = "exited", !.exit = e, !.out = o, !.err = r]
          /\ waited' = "exited"
          /\ pc' = "s_collect"
          /\ faults' = faults
       \/ /\ waited' \in {"deadline", "error"}
          /\ pc' = "s_stop"
          /\ faults' = faults \cup {"wait"}
          /\ UNCHANGED ctr
    /\ UNCHANGED <<language, request, peer, world, main_file_path, container, locals, exc,
                   outcome, result, tmpdir, wsFiles, build, runs>>

\* lines 214-215: stop, then raise TimeoutError; what stop raises replaces it
SStop ==
    /\ pc = "s_stop"
    /\ calls' = Inc("stop")
    /\ \/ /\ ctr' = [ctr EXCEPT !.state = "exited"]
          /\ SingleHandle(Exc("TimeoutError", TimeoutMessage(timeout)))
          /\ faults' = faults
       \/ /\ SingleHandle(APIError)
          /\ faults' = faults \cup {"stop"}
          /\ UNCHANGED ctr
    /\ UNCHANGED <<language, request, peer, world, main_file_path, container, batch, outcome,
                   result, tmpdir, wsFiles, build, runs, waited>>

\* the container's stderr passed on whatever the exit code
SurfacedStderrAlways(code, stderr_raw) == stderr_raw

\* line 223
SurfacedStderr(code, stderr_raw) ==
    IF code # 0 /\ Strip(stderr_raw) # <<>> THEN stderr_raw ELSE <<>>

\* lines 217-223: logs, logs, reload
SCollect ==
    /\ pc = "s_collect"
    /\ calls' = Inc("logs")
    /\ \/ /\ exit_code' = ctr.exit
          /\ stdout' = ctr.out
          /\ stderr' = SurfacedStderr(ctr.exit, ctr.err)
          /\ pc' = "s_finally"
          /\ UNCHANGED <<exc, faults>>
       \/ /\ SingleHandle(APIError)
          /\ faults' = faults \cup {"logs"}
    /\ UNCHANGED <<language, request, peer, world, main_file_path, container, batch, outcome,
                   result, tmpdir, wsFiles, ctr, build, runs, waited>>

\* lines 236-241
SFinally ==
    /\ pc = "s_finally"
    /\ RemoveIfCreated
    /\ pc' = IF exc = NoExc THEN "return" ELSE "cleanup"
    /\ UNCHANGED <<language, request, peer, main_file_path, container, locals, exc,
                   outcome, result, tmpdir, wsFiles, build, runs, waited>>

\* ------------------------------------------------------------------ batch
\* an exception that leaves the batch block without passing its finally
BatchRaiseNoFinally(e) ==
    /\ exc' = e
    /\ pc' = "cleanup"

\* the try block of lines 248-355 has no except clause: an exception goes to
\* the finally of lines 355-360 and then on to the caller
BatchRaise(e) ==
    /\ exc' = e
    /\ pc' = "b_finally"

\* asyncio.wait_for gave up on _exec_in_container: str(TimeoutError()) is ''
ExecTimeout == Exc("TimeoutError", <<>>)

\* lines 250-259
BCreate ==
    /\ pc = "b_create"
    /\ calls' = Inc("create")
    /\ \/ /\ container' = Handle
          /\ world' = [world EXCEPT !.ctrs = @ \cup {Handle}]
          /\ ctr' = Created(language)
          /\ pc' = "b_start"
          /\ UNCHANGED <<exc, faults>>
       \/ /\ BatchRaise(APIError)
          /\ faults' = faults \cup {"create"}
          /\ UNCHANGED <<container, ctr, world>>
    /\ UNCHANGED <<language, request, peer, main_file_path, locals, outcome, result,
                   tmpdir, wsFiles, build, runs, waited>>

\* line 260
BStart ==
    /\ pc = "b_start"
    /\ calls' = Inc("start")
    /\ \/ /\ ctr' = [ctr EXCEPT !.state = "running"]
          /\ pc' = "b_put"
          /\ UNCHANGED <<exc, faults>>
       \/ /\ BatchRaise(APIError)
          /\ faults' = faults \cup {"start"}
          /\ UNCHANGED ctr
    /\ UNCHANGED <<language, request, peer, world, main_file_path, container, locals, outcome,
                   result, tmpdir, wsFiles, build, runs, waited>>

\* lines 262-271
BPut ==
    /\ pc = "b_put"
    /\ calls' = Inc("put")
    /\ \/ /\ ctr' = [ctr EXCEPT !.populated = TRUE, !.files = Archive]
          /\ pc' = "b_build"
          /\ UNCHANGED <<exc, faults>>
       \/ /\ BatchRaise(APIError)
          /\ faults' = faults \cup {"put"}
          /\ UNCHANGED ctr
    /\ UNCHANGED <<language, request, peer, world, main_file_path, container, locals, outcome,
                   result, tmpdir, wsFiles, build, runs, waited>>

\* a container per exec: create, populate and remove around every command
ExecCallsOwnContainer ==
    [calls EXCEPT !["exec"] = @ + 1, !["create"] = @ + 1, !["put"] = @ + 1,
                  !["remove"] = @ + 1]

\* _exec_in_container: one exec_run on the request's one container
ExecCalls == Inc("exec")

\* asyncio.to_thread of line 53 runs _run in the loop's default executor, a
\* pool of min(32, cpu_count + 4) threads: 5 on one CPU
DefaultWorkers == 5

\* every worker of the default executor is blocked in an exec_run: a further
\* _run is queued, and is cancelled unstarted when its deadline passes
Starved == world.busy + Cardinality(ctr.procs) >= DefaultWorkers

\* lines 42-53: wait_for gives up on the thread that runs exec_run; the thread
\* and the command it started in the container go on
StillRunning(p) == [ctr EXCEPT !.procs = @ \cup {p}]

\* a build step for every language, the interpreted one included
NeedsBuildAlways(lang) == TRUE

\* lines 274-297: the languages whose build step runs in the container
NeedsBuild(lang) == lang \in {"typescript", "java", "go"}

\* a build step whose failing exit code ends the batch block
BBuildChecked ==
    /\ pc = "b_build"
    /\ IF NeedsBuild(language)
       THEN /\ calls' = ExecCalls
            /\ \/ /\ ~Starved
                  /\ build' = "exit 0"
                  /\ pc' = "b_test"
                  /\ UNCHANGED <<exc, faults, ctr>>
               \/ /\ ~Starved
                  /\ build' = "exit 1"
                  /\ BatchRaise(Exc("RuntimeError", <<"build failed">>))
                  /\ UNCHANGED <<faults, ctr>>
               \/ /\ build' = "timeout"
                  /\ BatchRaise(ExecTimeout)
                  /\ ctr' = IF Starved THEN ctr ELSE StillRunning(0)
                  /\ faults' = faults
               \/ /\ ~Starved
                  /\ build' = "raised"
                  /\ BatchRaise(APIError)
                  /\ faults' = faults \cup {"build"}
                  /\ ctr' = ctr
       ELSE /\ build' = "skipped"
            /\ pc' = "b_test"
            /\ UNCHANGED <<calls, exc, faults, ctr>>
    /\ UNCHANGED <<language, request, peer, world, main_file_path, container, locals, outcome,
                   result, tmpdir, wsFiles, runs, waited>>

\* lines 273-297: the build command's exit code and output are dropped
BBuild ==
    /\ pc = "b_build"
    /\ IF NeedsBuild(language)
       THEN /\ calls' = ExecCalls
            /\ \/ /\ ~Starved
                  /\ build' \in {"exit 0", "exit 1"}
                  /\ pc' = "b_test"
                  /\ UNCHANGED <<exc, faults, ctr>>
               \/ /\ build' = "timeout"
                  /\ BatchRaise(ExecTimeout)
                  /\ ctr' = IF Starved THEN ctr ELSE StillRunning(0)
                  /\ faults' = faults
               \/ /\ ~Starved
                  /\ build' = "raised"
                  /\ BatchRaise(APIError)
                  /\ faults' = faults \cup {"build"}
                  /\ ctr' = ctr
       ELSE /\ build' = "skipped"
            /\ pc' = "b_test"
            /\ UNCHANGED <<calls, exc, faults, ctr>>
    /\ UNCHANGED <<language, request, peer, world, main_file_path, container, locals, outcome,
                   result, tmpdir, wsFiles, runs, waited>>

\* lines 302 and 305
ExpectedOutput(test_case) == Strip(test_case.output)

\* line 318
ActualOutput(t_out) == Strip(t_out)

\* a comparison that forgets the exit code
PassedByOutputAlone(t_exit, actual_output, expected_output) ==
    actual_output = expected_output

\* line 319
Passed(t_exit, actual_output, expected_output) ==
    t_exit = 0 /\ actual_output = expected_output

\* line 322: t_err and str(t_err).strip()
NonBlank(t_err) == Strip(t_err) # <<>>

\* the literal 'Ошибка: ' of line 326, transliterated
ErrorPrefix == <<"Oshibka:", " ">>

\* lines 321-327
ActualOutputWithError(actual_output, t_err) ==
    IF NonBlank(t_err)
    THEN IF actual_output # <<>>
         THEN actual_output \o <<"\n">> \o ErrorPrefix \o Strip(t_err)
         ELSE ErrorPrefix \o Strip(t_err)
    ELSE actual_output

\* every test's error text replaces the one remembered
LastErrorOutput(first, t_err) ==
    IF NonBlank(t_err) THEN Strip(t_err) ELSE first

\* lines 323-324
FirstErrorOutput(first, t_err) ==
    IF NonBlank(t_err) /\ first = <<>> THEN Strip(t_err) ELSE first

\* a record numbered as enumerate numbers it, from 0
TestResultZeroBased(test_idx, test_case, t_exit, t_out, t_err) ==
    [test_index      |-> test_idx,
     input           |-> test_case.input,
     expected_output |-> ExpectedOutput(test_case),
     actual_output   |-> ActualOutputWithError(ActualOutput(t_out), t_err),
     passed          |-> Passed(t_exit, ActualOutput(t_out), ExpectedOutput(test_case)),
     exit_code       |-> t_exit]

\* lines 317-337
TestResult(test_idx, test_case, t_exit, t_out, t_err) ==
    [test_index      |-> test_idx + 1,
     input           |-> test_case.input,
     expected_output |-> ExpectedOutput(test_case),
     actual_output   |-> ActualOutputWithError(ActualOutput(t_out), t_err),
     passed          |-> Passed(t_exit, ActualOutput(t_out), ExpectedOutput(test_case)),
     exit_code       |-> t_exit]

\* lines 312-315: the except clauses around the per-test exec
TimeoutTriple(t) == [exit |-> -1, out |-> <<>>, err |-> TimeoutMessage(t)]

\* lines 317-337 for one test whose exec gave (t_exit, t_out, t_err)
Record(t) ==
    LET test_idx == Len(test_results)
        test_case == test_cases.cases[test_idx + 1]
    IN  /\ test_results' =
              Append(test_results, TestResult(test_idx, test_case, t.exit, t.out, t.err))
        /\ first_error_output' = FirstErrorOutput(first_error_output, t.err)
        /\ pc' = "b_test"
        /\ exc' = exc

\* a per-test deadline that nothing catches
OnTestTimeoutAbort ==
    /\ BatchRaise(ExecTimeout)
    /\ UNCHANGED <<test_results, first_error_output>>

\* lines 312-337: the deadline of the test's exec passed
OnTestTimeout == Record(TimeoutTriple(timeout))

\* lines 299-337: one iteration of the loop; the exec returns, or its deadline
\* passes with the command running or never started, or exec_run raises
BTest ==
    /\ pc = "b_test"
    /\ Len(test_results) < Len(test_cases.cases)
    /\ calls' = ExecCalls
    /\ \/ \E e \in ExitCodes, o \in ProgOuts, r \in ProgErrs :
            /\ ~Starved
            /\ Record([exit |-> e, out |-> o, err |-> r])
            /\ runs' = Append(runs, [kind |-> "exited", exit |-> e, out |-> o, err |-> r])
            /\ faults' = faults
            /\ ctr' = ctr
       \/ /\ OnTestTimeout
          /\ runs' = Append(runs, [kind |-> IF Starved THEN "starved" ELSE "timeout",
                                   exit |-> -1, out |-> <<>>, err |-> <<>>])
          /\ faults' = faults
          /\ ctr' = IF Starved THEN ctr ELSE StillRunning(Len(test_results) + 1)
       \/ /\ ~Starved
          /\ BatchRaise(APIError)
          /\ runs' = Append(runs, [kind |-> "raised", exit |-> -1, out |-> <<>>, err |-> <<>>])
          /\ faults' = faults \cup {"exec"}
          /\ UNCHANGED <<test_results, first_error_output, ctr>>
    /\ UNCHANGED <<language, request, peer, world, main_file_path, container, outputs, verdict,
                   outcome, result, tmpdir, wsFiles, build, waited>>

\* a command left behind by a deadline ends by itself inside the container
ProcessExits ==
    /\ \E p \in ctr.procs : ctr' = [ctr EXCEPT !.procs = @ \ {p}]
    /\ UNCHANGED <<language, request, peer, world, pc, main_file_path, container, locals,
                   exc, outcome, result, tmpdir, wsFiles, calls, history>>

\* line 339
RECURSIVE PassedCount(_)
PassedCount(trs) ==
    IF trs = <<>> THEN 0
    ELSE (IF Head(trs).passed THEN 1 ELSE 0) + PassedCount(Tail(trs))

\* a verdict that one passing test is enough for
SomePassed(trs) == PassedCount(trs) > 0

\* lines 339-341
AllPassed(trs) == PassedCount(trs) = Len(trs)

\* line 342
Verdict(trs) == IF AllPassed(trs) THEN "ACCEPTED" ELSE "WRONG ANSWER"

\* lines 345-349: one line per test
RECURSIVE TestLines(_)
TestLines(trs) ==
    IF trs = <<>> THEN <<>>
    ELSE LET tr == Head(trs)
         IN  <<"\n", IF tr.passed THEN "ok" ELSE "fail", " ", "Test", " ",
               IntStr(tr.test_index), ":", " ">> \o tr.actual_output
               \o <<" ", "(expected:", " ">> \o tr.expected_output \o <<")">>
               \o TestLines(Tail(trs))

\* lines 344-351
Transcript(trs) ==
    <<"Verdict:", " ", Verdict(trs), "\n", "Passed:", " ", IntStr(PassedCount(trs)),
      "/", IntStr(Len(trs)), "\n">> \o TestLines(trs)

\* lines 352-353
BatchStderr(trs, first, old) == IF ~AllPassed(trs) /\ first # <<>> THEN first ELSE old

\* an exit code that does not look at the tests
BatchExitCodeZero(trs) == 0

\* line 354
BatchExitCode(trs) == IF AllPassed(trs) THEN 0 ELSE 1

\* lines 339-354
BVerdict ==
    /\ pc = "b_test"
    /\ Len(test_results) = Len(test_cases.cases)
    /\ verdict' = Verdict(test_results)
    /\ stdout' = Transcript(test_results)
    /\ stderr' = BatchStderr(test_results, first_error_output, stderr)
    /\ exit_code' = BatchExitCode(test_results)
    /\ pc' = "b_finally"
    /\ UNCHANGED <<language, request, peer, world, main_file_path, container, test_results,
                   first_error_output, exc, outcome, result, tmpdir, wsFiles, ctr,
                   calls, history>>

\* lines 355-360
BFinally ==
    /\ pc = "b_finally"
    /\ RemoveIfCreated
    /\ pc' = IF exc = NoExc THEN "return" ELSE "cleanup"
    /\ UNCHANGED <<language, request, peer, main_file_path, container, locals, exc,
                   outcome, result, tmpdir, wsFiles, build, runs, waited>>

\* ------------------------------------------------------------------ the end
\* lines 361-372
Return ==
    /\ pc = "return"
    /\ result' = [returned |-> TRUE,
                  stdout |-> stdout,
                  stderr |-> stderr,
                  exit_code |-> exit_code,
                  test_results |-> IF Truthy(test_cases)
                                   THEN [present |-> TRUE, list |-> test_results]
                                   ELSE [present |-> FALSE, list |-> <<>>],
                  verdict |-> IF Truthy(test_cases) THEN verdict ELSE "None"]
    /\ pc' = "cleanup"
    /\ UNCHANGED <<language, request, peer, world, main_file_path, container, locals, exc,
                   outcome, tmpdir, wsFiles, ctr, calls, history>>

\* a cleanup that only the normal return reaches
RemoveTreeOnReturn ==
    IF exc = NoExc
    THEN /\ tmpdir' = FALSE
         /\ wsFiles' = {}
         /\ world' = [world EXCEPT !.dirs = @ \ {world.name}]
    ELSE UNCHANGED <<tmpdir, wsFiles, world>>

\* lines 373-377: shutil.rmtree(tmpdir, ignore_errors=True)
RemoveTree ==
    /\ tmpdir' = FALSE
    /\ wsFiles' = {i \in wsFiles : ~InWorkspace(files[i])}
    /\ world' = [world EXCEPT !.dirs = @ \ {world.name}]

Cleanup ==
    /\ pc = "cleanup"
    /\ RemoveTree
    /\ outcome' = IF exc = NoExc THEN "returned" ELSE "raised"
    /\ pc' = "done"
    /\ UNCHANGED <<language, request, peer, main_file_path, container, locals, exc,
                   result, ctr, calls, history>>

\* ------------------------------------------------------------------ specification
Next ==
    \/ MakeTmpdir
    \/ WriteFiles
    \/ ResolveLanguage
    \/ SelectMode
    \/ SCreate
    \/ SPut
    \/ SStart
    \/ SWait
    \/ SStop
    \/ SCollect
    \/ SFinally
    \/ BCreate
    \/ BStart
    \/ BPut
    \/ BBuild
    \/ BTest
    \/ ProcessExits
    \/ BVerdict
    \/ BFinally
    \/ Return
    \/ Cleanup

Spec == Init /\ [][Next]_vars

SpecLang == InitLang /\ [][Next]_vars

SpecSuite == InitSuite /\ [][Next]_vars

SpecDirs == InitDirs /\ [][Next]_vars

\* ------------------------------------------------------------------ event loop
\* line 40: ThreadPoolExecutor(max_workers=4)
max_workers == 4

\* where a Docker client call runs: exec_run in a thread of the loop's default
\* executor (asyncio.to_thread, line 53); every other call is made by the
\* coroutine itself, on the event loop's thread; nothing is ever submitted to
\* self._thread_pool
Dispatch(call) == IF call = "exec" THEN "to_thread" ELSE "event loop"

\* the only await of execute_code is the one of _exec_in_container (line 53),
\* reached from the build step and from the test loop: there the coroutine is
\* suspended until the exec returns or its deadline passes
Suspended ==
    \/ pc = "b_build" /\ NeedsBuild(language)
    \/ pc = "b_test" /\ Len(test_results) < Len(test_cases.cases)

\* the event loop's thread is free when the request's coroutine has not begun,
\* has ended, or is suspended; between awaits the coroutine keeps the thread,
\* its blocking Docker calls included
LoopFree == pc \in {"start", "done"} \/ Suspended

PeerStep(from, to) ==
    /\ peer = from
    /\ peer' = to
    /\ UNCHANGED <<language, request, pc, main_file_path, container, locals, exc,
                   outcome, result, tmpdir, wsFiles, ctr, calls, history>>

\* the second request's coroutine runs up to its await of an exec: it has made
\* its workspace, created its container and handed the exec to a thread
PeerAwait ==
    /\ LoopFree
    /\ world.busy < DefaultWorkers
    /\ PeerStep("idle", "awaiting")
    /\ world' = [world EXCEPT !.uuids = @ + 1, !.peer_name = Uuid4,
                              !.dirs = @ \cup {Uuid4}, !.ctrs = @ \cup {PeerHandle},
                              !.busy = @ + 1]

\* the clock: the deadline of the second request's exec passes
PeerDeadline == PeerStep("awaiting", "overdue") /\ world' = world

\* the loop runs wait_for's timer callback: TimeoutError in the second request,
\* whose thread stays blocked in exec_run
PeerTimeout == LoopFree /\ PeerStep("overdue", "timed_out") /\ world' = world

\* the loop delivers the exec's result to the second request
PeerResult ==
    /\ LoopFree
    /\ PeerStep("awaiting", "finished")
    /\ world' = [world EXCEPT !.busy = @ - 1]

\* the second request removes its container and its workspace
PeerEnd ==
    /\ LoopFree
    /\ \/ /\ PeerStep("finished", "ended")
          /\ world' = [world EXCEPT !.dirs = @ \ {world.peer_name},
                                    !.ctrs = @ \ {PeerHandle}]
       \/ /\ PeerStep("timed_out", "ended")
          /\ world' = [world EXCEPT !.dirs = @ \ {world.peer_name},
                                    !.ctrs = @ \ {PeerHandle}, !.busy = @ - 1]

\* the workers that the second request's exec holds
PeerBusy == IF peer \in {"awaiting", "overdue", "timed_out"} THEN 1 ELSE 0

\* an exec of some further request takes a worker of the default executor
OthersExec ==
    /\ LoopFree
    /\ world.busy < DefaultWorkers
    /\ world' = [world EXCEPT !.busy = @ + 1]
    /\ UNCHANGED <<language, request, peer, pc, main_file_path, container, locals,
                   exc, outcome, result, tmpdir, wsFiles, ctr, calls, history>>

\* an exec of some further request returns and frees its worker
OthersReturn ==
    /\ world.busy > PeerBusy
    /\ world' = [world EXCEPT !.busy = @ - 1]
    /\ UNCHANGED <<language, request, peer, pc, main_file_path, container, locals,
                   exc, outcome, result, tmpdir, wsFiles, ctr, calls, history>>

NextLoop ==
    \/ Next
    \/ PeerAwait
    \/ PeerDeadline
    \/ PeerTimeout
    \/ PeerResult
    \/ PeerEnd
    \/ OthersExec
    \/ OthersReturn

SpecLoop == InitLoop /\ [][NextLoop]_vars

\* ------------------------------------------------------------------ claims
Done == pc = "done"
Tests == test_cases.cases
\* the mode's try block was entered: its first statement is the create call
BatchRan == Truthy(test_cases) /\ calls.create > 0
SingleRan == ~Truthy(test_cases) /\ calls.create > 0
Reported == result.test_results.list

\* C1 as stated: a batch request ends with exactly one container created, the
\* workspace transferred into it exactly once and the container removed exactly
\* once, after the last of its N tests.
C1_ExactlyOnceAfterAllTests ==
    (Done /\ BatchRan) =>
        /\ container = Handle
        /\ calls.create = 1
        /\ calls.put = 1
        /\ calls.remove = 1
        /\ Len(runs) = Len(Tests)

\* C1 amended: a batch request never creates, populates or removes more than
\* once, whatever the number of tests; remove is called once exactly when create
\* returned a container, the transfer is made once exactly when create and start
\* succeeded, nothing runs in the container after the removal, and when no Docker
\* call raises and the build meets its deadline all three happen exactly once,
\* the removal after all N tests.
C1_OneSharedContainer ==
    Truthy(test_cases) =>
        /\ calls.create <= 1 /\ calls.put <= 1 /\ calls.remove <= 1
        /\ calls.remove = 1 => pc \in {"return", "cleanup", "done"}
        /\ (Done /\ BatchRan) =>
              /\ calls.remove = (IF container = Handle THEN 1 ELSE 0)
              /\ calls.put = (IF faults \cap {"create", "start"} = {} THEN 1 ELSE 0)
        /\ (Done /\ BatchRan /\ faults \subseteq {"remove"} /\ build # "timeout") =>
              /\ calls.put = 1 /\ calls.remove = 1
              /\ Len(runs) = Len(Tests)
              /\ calls.exec = Len(Tests) + (IF NeedsBuild(language) THEN 1 ELSE 0)

C1_Witness ==
    /\ Done /\ BatchRan /\ outcome = "returned"
    /\ Len(runs) = 2 /\ calls.create = 1 /\ calls.put = 1 /\ calls.remove = 1

\* C2 as stated: a single-run request makes exactly one create call and exactly
\* one remove call, also when create, populate, start or wait raises.
C2_OneCreateOneRemove ==
    (Done /\ SingleRan) => (calls.create = 1 /\ calls.remove = 1)

\* C2 amended: a single-run request makes exactly one create call, and exactly
\* one remove call when create returned a container (also when populate, start,
\* wait, stop or the collection of the logs raises) but none when create raised.
C2_OneCreateAndRemoveIfCreated ==
    ~Truthy(test_cases) =>
        /\ calls.create <= 1 /\ calls.remove <= 1
        /\ (pc \in {"return", "cleanup", "done"} /\ SingleRan) =>
              /\ calls.create = 1
              /\ calls.remove = (IF "create" \in faults THEN 0 ELSE 1)

C2_Witness ==
    /\ Done /\ SingleRan /\ faults \cap {"put", "start", "wait"} # {}
    /\ calls.remove = 1

C4_WorkspaceGone == Done => (~tmpdir /\ \A i \in wsFiles : ~InWorkspace(files[i]))

C4_Witness == Done /\ exc.cls = "OSError" /\ outcome = "raised" /\ ~tmpdir

\* C5: a batch response has verdict ACCEPTED exactly when every reported test
\* passed, and WRONG ANSWER otherwise.
C5_VerdictIffAllPassed ==
    (result.returned /\ result.test_results.present) =>
        LET all == \A i \in 1..Len(Reported) : Reported[i].passed
        IN  /\ all => result.verdict = "ACCEPTED"
            /\ ~all => result.verdict = "WRONG ANSWER"

C5_Witness ==
    /\ result.returned /\ result.test_results.present
    /\ Len(Reported) = 2 /\ Reported[1].passed /\ ~Reported[2].passed
    /\ result.verdict = "WRONG ANSWER"

\* C6 as stated: every reported test has passed equal to (its reported exit
\* code is 0 and its reported actual output, trimmed, equals its reported
\* expected output, trimmed), whatever the run's exit code, stdout and stderr.
C6_PassedMatchesReported ==
    (result.returned /\ result.test_results.present) =>
        \A i \in 1..Len(Reported) :
            Reported[i].passed =
                (/\ Reported[i].exit_code = 0
                 /\ Strip(Reported[i].actual_output) = Strip(Reported[i].expected_output))

\* C6 amended: every reported test has passed equal to (its reported exit code
\* is 0 and the stdout of its run, trimmed, equals its reported expected output,
\* trimmed); the reported actual output is that trimmed stdout, and the equation
\* over the reported fields holds, when the run ended with blank stderr;
\* otherwise the reported actual output carries the appended error note.
C6_PassedMatchesStdout ==
    (result.returned /\ result.test_results.present) =>
        \A i \in 1..Len(Reported) :
            /\ Reported[i].passed =
                  (/\ Reported[i].exit_code = 0
                   /\ Strip(runs[i].out) = Strip(Reported[i].expected_output))
            /\ (runs[i].kind = "exited" /\ Strip(runs[i].err) = <<>>) =>
                  /\ Reported[i].actual_output = Strip(runs[i].out)
                  /\ Reported[i].passed =
                        (/\ Reported[i].exit_code = 0
                         /\ Strip(Reported[i].actual_output)
                              = Strip(Reported[i].expected_output))

C6_Witness ==
    /\ result.returned /\ result.test_results.present
    /\ \E i \in 1..Len(Reported) :
         /\ Reported[i].passed
         /\ Strip(runs[i].err) # <<>>
         /\ Reported[i].actual_output # Reported[i].expected_output

Recognized(fs) ==
    {i \in 1..Len(fs) : Lower(fs[i].ext) \in {".py", ".ts", ".js", ".go", ".java"}}
FirstRecognized(fs) == CHOOSE i \in Recognized(fs) : \A j \in Recognized(fs) : i <= j
Effective(fs, declared) ==
    IF Recognized(fs) # {} THEN ExtMapGet(Lower(fs[FirstRecognized(fs)].ext)) ELSE declared

\* C8 as stated: the language of the first file with a recognized extension
\* overrides the declared one, the declared one is used when no file has one,
\* and when the resulting language is not registered execute_code fails with the
\* unsupported-language error before any container is created.
C8_EffectiveLanguage ==
    [][pc = "resolve" =>
         IF Effective(files, language) \in Registered
         THEN pc' = "mode" => language' = Effective(files, language)
         ELSE /\ exc' = Exc("ValueError", UnsupportedMessage(Effective(files, language)))
              /\ pc' = "cleanup"
              /\ calls'.create = 0]_vars

\* C8 for a request with at least one file: the resolution is as stated.
C8_EffectiveLanguageOfFiles ==
    [][(pc = "resolve" /\ files # <<>>) =>
         IF Effective(files, language) \in Registered
         THEN pc' = "mode" /\ exc' = NoExc /\ language' = Effective(files, language)
         ELSE /\ exc' = Exc("ValueError", UnsupportedMessage(Effective(files, language)))
              /\ pc' = "cleanup"
              /\ calls'.create = 0]_vars

\* C9 as stated: when the single-run container does not exit within the
\* deadline, it is stopped and the result has exit code -1, the timeout message
\* as stderr and empty stdout.
C9_TimeoutResult ==
    (Done /\ SingleRan /\ waited = "deadline") =>
        /\ calls.stop = 1
        /\ outcome = "returned"
        /\ result.exit_code = -1
        /\ result.stderr = TimeoutMessage(timeout)
        /\ result.stdout = <<>>

\* C9 with the failure of the stop call set apart: when the single-run
\* container does not exit within the deadline, stop is called on it once and
\* the result has exit code -1 and empty stdout; its stderr is the timeout
\* message when the stop call returned, and the 'Docker error: ...' message of
\* the stop call's error when that call raised.
C9_TimeoutResultUnlessStopRaised ==
    (Done /\ SingleRan /\ waited = "deadline") =>
        /\ calls.stop = 1
        /\ outcome = "returned"
        /\ result.exit_code = -1
        /\ result.stdout = <<>>
        /\ result.stderr = IF "stop" \in faults
                           THEN DockerErrorMessage(APIError.msg)
                           ELSE TimeoutMessage(timeout)

C9_Witness ==
    /\ Done /\ SingleRan /\ waited = "deadline" /\ "stop" \notin faults
    /\ result.exit_code = -1 /\ result.stderr = TimeoutMessage(timeout)

\* C10: in single-run mode a failure of create, populate or start does not
\* reach the caller as an exception: execute_code returns a result with exit
\* code -1 and a non-empty stderr that carries the error's text.
C10_SetupFailureIsAResult ==
    (Done /\ SingleRan /\ faults \cap {"create", "put", "start"} # {}) =>
        /\ outcome = "returned"
        /\ exc = NoExc
        /\ result.exit_code = -1
        /\ result.stderr # <<>>
        /\ result.stderr = <<"Docker error:", " ">> \o APIError.msg
        /\ result.stdout = <<>>

C10_Witness ==
    /\ Done /\ SingleRan /\ "put" \in faults
    /\ outcome = "returned" /\ result.exit_code = -1

\* C11: in batch mode a failure of create, start or populate does not reach the
\* caller as an exception: execute_code returns a result with exit code -1 and
\* a non-empty stderr.
C11_BatchSetupFailureIsAResult ==
    (Done /\ BatchRan /\ faults \cap {"create", "start", "put"} # {}) =>
        /\ outcome = "returned"
        /\ result.returned
        /\ result.exit_code = -1
        /\ result.stderr # <<>>

\* C12: an error after language resolution in batch mode (the build's deadline,
\* an error raised by the build's or a test's exec) does not reach the caller:
\* execute_code returns a result with exit code -1 and a non-empty stderr, and
\* the container's removal and the workspace's deletion have run.
C12_BatchErrorIsAResult ==
    (Done /\ BatchRan /\ (build \in {"timeout", "raised"} \/ "exec" \in faults)) =>
        /\ exc = NoExc
        /\ outcome = "returned"
        /\ result.exit_code = -1
        /\ result.stderr # <<>>
        /\ calls.remove = 1
        /\ ~tmpdir

\* C13: a command whose deadline passed is stopped before the engine goes on:
\* when the next command is started in the container, no command of an
\* operation that timed out is still running there, and in single-run mode the
\* stop call is made before any other call follows the deadline.
C13_TimedOutOperationStopped ==
    [][/\ (calls'.exec > calls.exec) => (ctr.procs = {})
       /\ (waited = "deadline" /\ calls' # calls) =>
              (calls.stop = 1 \/ calls'.stop = 1)]_vars

\* C14: the tests of one batch request run strictly one after another: at no
\* time are the runner commands of two different tests running in the
\* container, a test whose deadline passed included.
C14_OneRunnerAtATime ==
    Cardinality({p \in ctr.procs : p >= 1}) <= 1

\* what the two modes' lifecycles share: the workspace exists when the container
\* is created, the container exists when it is populated or started, every
\* stage is entered at most once, and nothing follows the removal but the
\* return and the deletion of the workspace
LifecycleCommon ==
    /\ calls.create > 0 => pc \notin {"start", "write", "resolve", "mode"}
    /\ (calls.create > 0 /\ pc \notin {"cleanup", "done"}) => tmpdir
    /\ (calls.put > 0 \/ calls.start > 0) => (container # NoContainer /\ "create" \notin faults)
    /\ \A c \in {"create", "put", "start", "wait", "remove"} : calls[c] <= 1
    /\ calls.remove > 0 => pc \in {"return", "cleanup", "done"}
    /\ Done => ~tmpdir

\* C15: in both modes the lifecycle runs in one order: workspace, container
\* created, populated, started, then ended, then cleaned up; in particular the
\* archive is put into the container before the container is started.
C15_PopulatedBeforeStarted ==
    /\ LifecycleCommon
    /\ calls.start > 0 => (calls.put = 1 /\ "put" \notin faults /\ ctr.populated)

\* C15 as the code has it: single-run mode populates the created container and
\* then starts it; batch mode starts the created container and then populates
\* it; in both, no program, build or test command runs in a container that is
\* not populated, and the rest of the order is the same.
C15_LifecycleOrderByMode ==
    /\ LifecycleCommon
    /\ ~Truthy(test_cases) =>
          /\ calls.start > 0 => (calls.put = 1 /\ "put" \notin faults /\ ctr.populated)
          /\ calls.wait > 0 => (calls.start = 1 /\ "start" \notin faults)
          /\ calls.exec = 0
    /\ Truthy(test_cases) =>
          /\ calls.put > 0 => (calls.start = 1 /\ "start" \notin faults)
          /\ calls.exec > 0 => (calls.put = 1 /\ "put" \notin faults /\ ctr.populated)
          /\ calls.wait = 0

C15_Witness ==
    /\ Done /\ BatchRan /\ Len(runs) = Len(Tests)
    /\ ctr.populated /\ calls.start = 1 /\ calls.put = 1 /\ calls.remove = 1

\* the exec_run calls in flight: the abandoned ones of the request and those
\* of the other requests
InFlight == Cardinality(ctr.procs) + world.busy

\* C16: every blocking Docker call is dispatched through the executor's worker
\* pool of 4 threads, so at most 4 Docker calls are in flight at any time
\* across the concurrent requests.
C16_CallsGoThroughThePool ==
    /\ \A c \in DOMAIN calls : calls[c] > 0 => Dispatch(c) = "thread pool"
    /\ InFlight <= max_workers

\* C17: while the request is blocked in the wait for its single-run container,
\* the second request still moves: the result of its exec is delivered, and a
\* deadline of its that has passed fires.
C17_PeerNotBlockedByWait ==
    pc \in {"s_wait", "s_stop"} =>
        /\ peer = "awaiting" => ENABLED PeerResult
        /\ peer = "overdue" => ENABLED PeerTimeout

\* the stream holds a character that is not whitespace
HasText(stream) == \E i \in 1..Len(stream) : stream[i] \notin Whitespace

\* C18: when a single run ends normally, the result's stdout and exit code are
\* the container's, and its stderr is the container's stderr if the exit code
\* is not zero and that stream is not blank, and empty otherwise.
C18_SingleRunResult ==
    (Done /\ SingleRan /\ waited = "exited" /\ "logs" \notin faults) =>
        /\ outcome = "returned"
        /\ result.exit_code = ctr.exit
        /\ result.stdout = ctr.out
        /\ result.stderr = IF ctr.exit # 0 /\ HasText(ctr.err) THEN ctr.err ELSE <<>>

C18_Witness ==
    /\ Done /\ SingleRan /\ waited = "exited" /\ "logs" \notin faults
    /\ ctr.exit = 0 /\ HasText(ctr.err) /\ result.stderr = <<>>

\* execute_code returned the response of a batch request
BatchReturned == result.returned /\ result.test_results.present

\* C19: the exit code of a batch response is 0 exactly when its verdict is
\* ACCEPTED, and 1 otherwise.
C19_ExitCodeFollowsVerdict ==
    BatchReturned =>
        /\ result.verdict \in {"ACCEPTED", "WRONG ANSWER"}
        /\ result.verdict = "ACCEPTED" => result.exit_code = 0
        /\ result.verdict # "ACCEPTED" => result.exit_code = 1

C19_Witness ==
    /\ BatchReturned /\ result.verdict = "WRONG ANSWER" /\ result.exit_code = 1
    /\ \A i \in 1..Len(Reported) : Reported[i].exit_code = 0

\* the error text of test i: what its runner wrote to stderr, or the timeout
\* message when its deadline passed
ErrText(i) == IF runs[i].kind = "timeout" THEN TimeoutMessage(timeout) ELSE runs[i].err
WithErrText == {i \in 1..Len(runs) : HasText(ErrText(i))}
FirstWithErrText == CHOOSE i \in WithErrText : \A j \in WithErrText : i <= j

\* the error text of test i appended to its trimmed output under the prefix
Appended(i) ==
    LET trimmed == Strip(runs[i].out)
    IN  IF trimmed = <<>> THEN ErrorPrefix \o Strip(ErrText(i))
        ELSE trimmed \o <<"\n">> \o ErrorPrefix \o Strip(ErrText(i))

\* C20: the stderr of a batch response is the trimmed error text of the first
\* test, in suite order, whose error text is not blank, and it is empty only
\* when no test had any; every test with error text has it appended to its
\* actual_output.
C20_StderrIsFirstTestStderr ==
    BatchReturned =>
        /\ result.stderr = IF WithErrText = {} THEN <<>>
                           ELSE Strip(ErrText(FirstWithErrText))
        /\ \A i \in WithErrText : Reported[i].actual_output = Appended(i)

\* C20 as the code has it: the first test's error text becomes the response's
\* stderr only when some test failed; when every test passed the stderr is
\* empty whatever the tests wrote.
C20_StderrIsFirstTestStderrOnFailure ==
    BatchReturned =>
        /\ result.stderr =
              IF WithErrText = {} \/ \A i \in 1..Len(Reported) : Reported[i].passed
              THEN <<>>
              ELSE Strip(ErrText(FirstWithErrText))
        /\ \A i \in WithErrText : Reported[i].actual_output = Appended(i)

C20_Witness ==
    /\ BatchReturned /\ Len(runs) = 2
    /\ runs[1].kind = "exited" /\ ~HasText(runs[1].err) /\ ~Reported[1].passed
    /\ HasText(runs[2].err)
    /\ result.stderr = Strip(runs[2].err)

\* the positions of execute_code inside each mode's block
SinglePcs == {"s_create", "s_put", "s_start", "s_wait", "s_stop", "s_collect", "s_finally"}
BatchPcs == {"b_create", "b_start", "b_put", "b_build", "b_test", "b_finally"}
HasSuite == test_cases.present /\ Len(test_cases.cases) > 0

\* C21: a request runs one mode only, batch mode exactly when test_cases is a
\* non-empty list and single-run mode otherwise; the response carries
\* test_results and a verdict exactly when batch mode ran.
C21_OneModePerRequest ==
    /\ pc \in SinglePcs => ~HasSuite
    /\ pc \in BatchPcs => HasSuite
    /\ ~(calls.exec > 0 /\ calls.wait + calls.stop + calls.logs > 0)
    /\ (build # "none" \/ runs # <<>>) => waited = "none"
    /\ result.returned =>
          /\ result.test_results.present <=> HasSuite
          /\ result.verdict # "None" <=> HasSuite
          /\ result.test_results.present <=> build # "none"
          /\ calls.wait > 0 => ~result.test_results.present
          /\ calls.exec > 0 => result.test_results.present

C21_Witness ==
    /\ result.returned /\ test_cases.present /\ test_cases.cases = <<>>
    /\ ~result.test_results.present /\ result.verdict = "None" /\ calls.wait = 1

\* C22: every container the request creates, in either mode, has its network
\* disabled unless the resolved language is typescript, and carries the memory
\* limit 512m and the CPU quota 50000 of a period of 100000.
C22_ContainerLimits ==
    ctr.state # "absent" =>
        /\ ctr.network <=> language = "typescript"
        /\ language \in {"python", "go", "java"} => ~ctr.network
        /\ ctr.mem_limit = "512m"
        /\ ctr.cpu_quota = 50000
        /\ ctr.cpu_period = 100000

C22_Witness ==
    /\ ctr.state = "running" /\ BatchRan /\ language = "go"
    /\ ~ctr.network /\ ctr.mem_limit = "512m" /\ ctr.cpu_quota = 50000

\* the build command was exec'd in the container
BuildExecd == build \in {"exit 0", "exit 1", "timeout", "raised"}

\* C23: in batch mode the build command is exec'd in the container once per
\* request for typescript, go and java and never for python; it has ended, or
\* its deadline has passed, before the first test runs, and no test repeats it.
C23_BuildOnceBeforeTests ==
    /\ BuildExecd => language \in {"typescript", "go", "java"}
    /\ build = "skipped" => language = "python"
    /\ pc = "b_test" =>
          /\ build # "none"
          /\ language \in {"typescript", "go", "java"} => build \in {"exit 0", "exit 1"}
    /\ calls.exec = (IF BuildExecd THEN 1 ELSE 0) + Len(runs)
    /\ runs # <<>> => build \in {"exit 0", "exit 1", "skipped"}
    /\ build \in {"timeout", "raised"} => runs = <<>>

C23_Witness ==
    /\ Done /\ BatchRan /\ language = "go" /\ build = "exit 0"
    /\ Len(runs) = 2 /\ calls.exec = 3

\* C28: a single run is reported as timed out only when the container did not
\* exit within the deadline; a wait call that fails for another reason is
\* reported as a Docker error.
C28_TimeoutOnlyOnDeadline ==
    (Done /\ SingleRan /\ outcome = "returned") =>
        /\ result.stderr = TimeoutMessage(timeout) => waited = "deadline"
        /\ waited = "error" => result.stderr = DockerErrorMessage(APIError.msg)

\* C29: the build's exit code is not looked at: after a build that exits
\* non-zero the suite goes on, every test is run with the runner command, and
\* the response has one record per test; the verdict, the exit code and the
\* stderr come from the tests alone.
C29_FailedBuildDoesNotAbort ==
    (BatchRan /\ build = "exit 1") =>
        /\ pc \in {"b_test", "b_finally", "return", "cleanup", "done"}
        /\ (pc # "b_test" /\ "exec" \notin faults) => Len(runs) = Len(Tests)
        /\ (Done /\ "exec" \notin faults) =>
              /\ outcome = "returned"
              /\ Len(Reported) = Len(Tests)
              /\ \A i \in 1..Len(Reported) :
                    Reported[i].passed <=>
                        (runs[i].kind = "exited" /\ runs[i].exit = 0
                           /\ Strip(runs[i].out) = Strip(Tests[i].output))
              /\ result.exit_code \in {0, 1}
              /\ result.stderr \in {<<>>} \cup {Strip(ErrText(i)) : i \in 1..Len(runs)}

C29_Witness ==
    /\ Done /\ BatchRan /\ build = "exit 1" /\ outcome = "returned"
    /\ Len(Reported) = 2
    /\ result.verdict = "ACCEPTED" /\ result.exit_code = 0

\* C26: when the container was set up and every test's run ended with an exit
\* code or on its deadline, the response has one record per test, in the
\* suite's order: record i has test_index i and the input of test i; a test
\* that exits non-zero does not end the suite.
C26_OneRecordPerTestInOrder ==
    (Done /\ BatchRan /\ build \in {"skipped", "exit 0", "exit 1"}
          /\ \A i \in 1..Len(runs) : runs[i].kind \in {"exited", "timeout"}) =>
        /\ outcome = "returned"
        /\ Len(runs) = Len(Tests)
        /\ Len(Reported) = Len(Tests)
        /\ \A i \in 1..Len(Tests) :
              /\ Reported[i].test_index = i
              /\ Reported[i].input = Tests[i].input
              /\ Reported[i].exit_code =
                    IF runs[i].kind = "exited" THEN runs[i].exit ELSE -1

C26_Witness ==
    /\ Done /\ BatchRan /\ outcome = "returned" /\ Len(Reported) = 2
    /\ Tests[1].input # Tests[2].input
    /\ Reported[1].exit_code = 1 /\ Reported[2].input = Tests[2].input
    /\ Reported[2].test_index = 2 /\ runs[2].kind = "timeout"

\* a command of the submitted program is running or has run in the container
CommandRan == calls.start > 0 \/ calls.exec > 0

\* C24: populate puts every file of the request into the container: each path
\* of files, a path under a directory included, is in the container when the
\* run or build command executes.
C24_EveryFileInContainer ==
    (CommandRan /\ ctr.populated) => \A i \in 1..Len(files) : i \in ctr.files

\* C30: every file the request writes lies inside its own workspace directory,
\* whatever the path key, an absolute path and one with '..' included, so that
\* nothing the request wrote is left on disk when execute_code has ended.
C30_NothingLeftOnDisk ==
    /\ \A i \in wsFiles : InWorkspace(files[i])
    /\ Done => wsFiles = {}

\* C27: a test that hangs does not keep a later test from being measured: the
\* runner of every test after one whose deadline passed is started in the
\* container, however many workers of the default executor are still held.
C27_LaterTestsAreStarted ==
    \A i \in 1..Len(runs) : \A j \in 1..(i - 1) :
        runs[j].kind = "timeout" => runs[i].kind # "starved"

\* the second request holds its workspace and its container
PeerAlive == peer \in {"awaiting", "overdue", "timed_out", "finished"}

\* C25: two requests that run at the same time have different workspace
\* directories and different containers, and neither touches the other's: what
\* the request creates, populates, execs in and removes is its own, and the
\* second request's workspace and container stay until it removes them itself.
C25_RequestsShareNothing ==
    /\ (world.name # 0 /\ world.peer_name # 0) => world.name # world.peer_name
    /\ container \in {NoContainer, Handle}
    /\ PeerAlive => (world.peer_name \in world.dirs /\ PeerHandle \in world.ctrs)
    /\ peer \in {"idle", "ended"} => PeerHandle \notin world.ctrs
    /\ tmpdir <=> (world.name # 0 /\ world.name \in world.dirs)
    /\ ctr.state \in {"created", "running", "exited"} <=> Handle \in world.ctrs

C25_Witness ==
    /\ Done /\ calls.remove = 1 /\ "remove" \notin faults /\ peer = "overdue"
    /\ world.name # 0 /\ world.dirs = {world.peer_name} /\ world.ctrs = {PeerHandle}

====
